---- MODULE Spec2Model ----
(***************************************************************************)
(* State-machine model of RuleBasedModel (src/src/modelDefinition.py): a   *)
(* registry of decision variables, one PuLP problem (objective, ordered    *)
(* constraints, the problem's own variable list, status) and the stored    *)
(* objective value.  Every public method is one action.                    *)
(***************************************************************************)
EXTENDS Integers, Sequences, FiniteSets, TLC

VARIABLES
    variables,        \* self.variables: name -> LpVariable object
    objective,        \* self.model.objective: None or an affine expression
    constraints,      \* self.model.constraints, in insertion order
    lp_variables,     \* self.model._variables, the problem's own variable list
    status,           \* self.model.status
    varValue,         \* varValue of every LpVariable object created so far
    log_level,        \* logging.getLogger().level, the root logger's level
    solver_call,      \* where a call of solve is: idle, running (inside
                      \* self.model.solve()) or ended, with the solver's outcome
    objective_value,  \* self.objective_value
    other,            \* a second RuleBasedModel instance: its model, variables
                      \* and objective_value
    data,             \* DataProcessing: self.data, None or the frame loaded
    detected,         \* what detect_categorical_columns returned since the
                      \* frame was loaded
    lastOp,           \* the last call made: its arguments and what it returned
    solved,           \* whether self.model.solve() has been called so far
    completed,        \* whether a call of it has returned without a fault
    calls             \* number of calls made so far

vars == <<variables, objective, constraints, lp_variables, status, varValue,
          log_level, solver_call, objective_value, other, data, detected,
          lastOp, solved, completed, calls>>

----------------------------------------------------------------------------
(* Bounds of the model *)

\* calls made on the model in one behaviour
MaxCalls == 2
\* the largest number of columns of a frame
MaxCols == 2

\* line 78 of dataProcessing.py: fewer than 21 unique values
UniqueThreshold == 21

\* Python's None where a number is expected (bounds, varValue, objective_value)
PyNone == -1

Names == {"x1", "x2"}
NameOrder == <<"x1", "x2">>

----------------------------------------------------------------------------
(* Python values *)

RetNone   == [kind |-> "None",   val |-> <<>>]
RetFalse  == [kind |-> "False",  val |-> <<>>]
RetTrue   == [kind |-> "True",   val |-> <<>>]
RetRaised == [kind |-> "raised", val |-> <<>>]
RetDict(d) == [kind |-> "dict", val |-> d]

\* pulp.LpVariable(var, lowBound=low, upBound=up, cat=cat); gen stands for the
\* identity of the Python object (two objects of one name are different keys)
LpVariable(var, low, up, cat, gen) ==
    [name |-> var, lowBound |-> low, upBound |-> up, cat |-> cat, gen |-> gen]

\* the model's state as one value, so that run can compose the methods
State(v, o, c, lv, st, vv, ov) ==
    [variables |-> v, objective |-> o, constraints |-> c, lp_variables |-> lv,
     status |-> st, varValue |-> vv, objective_value |-> ov]

Current == State(variables, objective, constraints, lp_variables, status,
                 varValue, objective_value)

NoObjective == [isNone |-> TRUE, expr |-> <<>>]

\* RuleBasedModel.__init__
InitState == State(<<>>, NoObjective, <<>>, <<>>, "Not Solved", <<>>, PyNone)

----------------------------------------------------------------------------
(* define_vars *)

\* number of LpVariable objects created so far under one name
Created(s, var) == Cardinality({v \in DOMAIN s.varValue : v.name = var})

RECURSIVE define_vars_skipping(_, _, _)
\* the loop as it would be if a bad entry were passed over, not reported
define_vars_skipping(s, items, i) ==
    IF i > Len(items) THEN [s |-> s, ret |-> RetNone]
    ELSE LET var == items[i].var
             bounds == items[i].bounds
         IN IF ~bounds.isTuple \/ bounds.len # 3
            THEN define_vars_skipping(s, items, i + 1)
            ELSE LET obj == LpVariable(var, bounds.low, bounds.up, bounds.cat,
                                       Created(s, var) + 1)
                     s1 == [s EXCEPT !.variables = (var :> obj) @@ s.variables,
                                     !.varValue = (obj :> PyNone) @@ s.varValue]
                 IN define_vars_skipping(s1, items, i + 1)

RECURSIVE define_vars_loop(_, _, _)
\* the loop of lines 78-83 from entry i on: a bad entry returns False at once,
\* a good one is stored in the registry before the next entry is looked at
define_vars_loop(s, items, i) ==
    IF i > Len(items) THEN [s |-> s, ret |-> RetNone]
    ELSE LET var == items[i].var
             bounds == items[i].bounds
         IN IF ~bounds.isTuple \/ bounds.len # 3
            THEN [s |-> s, ret |-> RetFalse]
            ELSE LET obj == LpVariable(var, bounds.low, bounds.up, bounds.cat,
                                       Created(s, var) + 1)
                     s1 == [s EXCEPT !.variables = (var :> obj) @@ s.variables,
                                     !.varValue = (obj :> PyNone) @@ s.varValue]
                 IN define_vars_loop(s1, items, i + 1)

\* define_vars as it would be if it rebuilt the registry instead of adding to it
define_vars_reset(s, var_dict) ==
    IF ~var_dict.isDict THEN [s |-> s, ret |-> RetFalse]
    ELSE define_vars_loop([s EXCEPT !.variables = <<>>], var_dict.items, 1)

define_vars(s, var_dict) ==
    IF ~var_dict.isDict THEN [s |-> s, ret |-> RetFalse]
    ELSE define_vars_loop(s, var_dict.items, 1)

----------------------------------------------------------------------------
(* expressions of the PuLP problem *)

\* lpSum as it would be if the coefficients were left out of the terms
lpSum_unweighted(s, d) ==
    LET keys == {s.variables[var] : var \in {n \in DOMAIN d : d[n] # 0}}
    IN [v \in keys |-> 1]

\* pulp.lpSum([self.variables[var]*coeff for var, coeff in d.items()]): an
\* affine expression keyed by the registry's objects; a term with coefficient
\* 0 is the empty expression and leaves no key
lpSum(s, d) ==
    LET keys == {s.variables[var] : var \in {n \in DOMAIN d : d[n] # 0}}
    IN [v \in keys |-> d[v.name]]

\* the coefficient an expression gives an object (0 when it is no key)
Coeff(expr, v) == IF v \in DOMAIN expr THEN expr[v] ELSE 0

\* a set of objects as a list, by name and then by age
RECURSIVE AsList(_)
AsList(S) ==
    IF S = {} THEN <<>>
    ELSE LET v == CHOOSE x \in S : \A y \in S :
                      \/ x.name = NameOrder[1] /\ y.name # NameOrder[1]
                      \/ x.name = y.name /\ x.gen <= y.gen
         IN <<v>> \o AsList(S \ {v})

InList(lv, v) == \E i \in 1..Len(lv) : lv[i] = v

\* LpProblem.addVariables: append the objects the list does not hold yet
addVariables(lv, S) == lv \o AsList({v \in S : ~InList(lv, v)})

\* list.sort(key=lambda v: v.name): stable, so objects of one name keep their order
SortByName(lv) ==
    SelectSeq(lv, LAMBDA v : v.name = NameOrder[1])
        \o SelectSeq(lv, LAMBDA v : v.name = NameOrder[2])

\* LpProblem.variables(): collect the keys of the objective and of every
\* constraint into the problem's list, sort it by name and return it
lpVariablesOf(s) ==
    LET fromObj == IF s.objective.isNone THEN {} ELSE DOMAIN s.objective.expr
        fromCons == UNION {DOMAIN s.constraints[i].expr : i \in 1..Len(s.constraints)}
    IN SortByName(addVariables(s.lp_variables, fromObj \cup fromCons))

----------------------------------------------------------------------------
(* set_objective *)

\* set_objective as it would be if "+=" added the new expression to the old one
set_objective_accumulating(s, obj_coeffs) ==
    IF ~obj_coeffs.isDict THEN [s |-> s, ret |-> RetFalse]
    ELSE IF \E var_name \in DOMAIN obj_coeffs.d : var_name \notin DOMAIN s.variables
    THEN [s |-> s, ret |-> RetFalse]
    ELSE LET old == s.objective.expr
             new == lpSum(s, obj_coeffs.d)
         IN [s |-> [s EXCEPT !.objective =
                       [isNone |-> FALSE,
                        expr |-> [v \in DOMAIN old \cup DOMAIN new |->
                                     Coeff(old, v) + Coeff(new, v)]]],
             ret |-> RetNone]

\* set_objective as it would be if it skipped the names it does not know
\* instead of rejecting the call
set_objective_unchecked(s, obj_coeffs) ==
    IF ~obj_coeffs.isDict THEN [s |-> s, ret |-> RetFalse]
    ELSE LET known == [n \in DOMAIN obj_coeffs.d \cap DOMAIN s.variables |->
                          obj_coeffs.d[n]]
         IN [s |-> [s EXCEPT !.objective =
                       [isNone |-> FALSE, expr |-> lpSum(s, known)]],
             ret |-> RetNone]

\* "self.model += expr" with an affine expression: LpProblem.__iadd__ assigns
\* the expression to self.objective
\* set_objective as it would be if a new objective unset the objective value
set_objective_invalidating(s, obj_coeffs) ==
    IF ~obj_coeffs.isDict THEN [s |-> s, ret |-> RetFalse]
    ELSE IF \E var_name \in DOMAIN obj_coeffs.d : var_name \notin DOMAIN s.variables
    THEN [s |-> s, ret |-> RetFalse]
    ELSE [s |-> [s EXCEPT !.objective =
                     [isNone |-> FALSE, expr |-> lpSum(s, obj_coeffs.d)],
                          !.objective_value = PyNone],
          ret |-> RetNone]

set_objective(s, obj_coeffs) ==
    IF ~obj_coeffs.isDict THEN [s |-> s, ret |-> RetFalse]
    ELSE IF \E var_name \in DOMAIN obj_coeffs.d : var_name \notin DOMAIN s.variables
    THEN [s |-> s, ret |-> RetFalse]
    ELSE [s |-> [s EXCEPT !.objective =
                     [isNone |-> FALSE, expr |-> lpSum(s, obj_coeffs.d)]],
          ret |-> RetNone]

----------------------------------------------------------------------------
(* add_constraints *)

ValidSenses == {"LE", "GE", "EQ"}

\* addConstraint as it would be if the problem kept the newest constraint first
addConstraint_first(s, con) ==
    [s EXCEPT !.constraints = <<con>> \o s.constraints,
              !.lp_variables = addVariables(s.lp_variables, DOMAIN con.expr)]

\* LpProblem.addConstraint: keep the constraint and add its keys to the list
addConstraint(s, con) ==
    [s EXCEPT !.constraints = Append(s.constraints, con),
              !.lp_variables = addVariables(s.lp_variables, DOMAIN con.expr)]

RECURSIVE add_constraints_no_sense_check(_, _, _)
\* the loop as it would be without the check of line 136: a constraint with
\* an unknown operator matches none of the branches of lines 144-149 and is
\* passed over
add_constraints_no_sense_check(s, cs, i) ==
    IF i > Len(cs) THEN [s |-> s, ret |-> RetTrue]
    ELSE LET constraint == cs[i]
             constraint_expr == constraint.expr
             sense == constraint.sense
             rhs == constraint.rhs
         IN IF ~constraint.isTuple \/ constraint.len # 3
                THEN [s |-> s, ret |-> RetFalse]
            ELSE IF ~constraint_expr.isDict
                THEN [s |-> s, ret |-> RetFalse]
            ELSE IF \E var \in DOMAIN constraint_expr.d : var \notin DOMAIN s.variables
                THEN [s |-> s, ret |-> RetFalse]
            ELSE IF ~rhs.isNum
                THEN [s |-> s, ret |-> RetFalse]
            ELSE IF sense \notin ValidSenses
                THEN add_constraints_no_sense_check(s, cs, i + 1)
            ELSE add_constraints_no_sense_check(
                     addConstraint(s, [expr |-> lpSum(s, constraint_expr.d),
                                       sense |-> sense, rhs |-> rhs.val]),
                     cs, i + 1)

RECURSIVE add_constraints_loop(_, _, _)
\* the loop of lines 120-149 from constraint i on: each constraint is checked
\* and, when it passes, added to the problem before the next one is checked
add_constraints_loop(s, cs, i) ==
    IF i > Len(cs) THEN [s |-> s, ret |-> RetTrue]
    ELSE LET constraint == cs[i]
             constraint_expr == constraint.expr
             sense == constraint.sense
             rhs == constraint.rhs
         IN IF ~constraint.isTuple \/ constraint.len # 3
                THEN [s |-> s, ret |-> RetFalse]
            ELSE IF ~constraint_expr.isDict
                THEN [s |-> s, ret |-> RetFalse]
            ELSE IF \E var \in DOMAIN constraint_expr.d : var \notin DOMAIN s.variables
                THEN [s |-> s, ret |-> RetFalse]
            ELSE IF sense \notin ValidSenses
                THEN [s |-> s, ret |-> RetFalse]
            ELSE IF ~rhs.isNum
                THEN [s |-> s, ret |-> RetFalse]
            \* the three branches of lines 144-149 differ in the operator only
            ELSE add_constraints_loop(
                     addConstraint(s, [expr |-> lpSum(s, constraint_expr.d),
                                       sense |-> sense, rhs |-> rhs.val]),
                     cs, i + 1)

add_constraints(s, cons) ==
    IF ~cons.isList THEN [s |-> s, ret |-> RetFalse]
    ELSE add_constraints_loop(s, cons.items, 1)

----------------------------------------------------------------------------
(* solve *)

RECURSIVE SumOver(_, _, _)
SumOver(expr, vv, S) ==
    IF S = {} THEN 0
    ELSE LET v == CHOOSE x \in S : TRUE
         IN expr[v] * vv[v] + SumOver(expr, vv, S \ {v})

\* pulp.value(expr): None as soon as one of its variables has no value
value(expr, vv) ==
    IF \E v \in DOMAIN expr : vv[v] = PyNone THEN PyNone
    ELSE SumOver(expr, vv, DOMAIN expr)

\* the sense of the problem: RuleBasedModel() is made with the default
LpMaximize == "Maximize"
model_sense == LpMaximize

SolverStatuses == {"Optimal", "Infeasible", "Unbounded"}

\* the values of a solution: the vertices of x1 + x2 <= 10, x1 >= 0, x2 >= 0
\* have the coordinates 0 and 10
SolverValues == {0, 10}

\* what the external solver may do with the problem whose variables are lv:
\* raise, or end with a status; an Optimal end gives every variable a value,
\* another end may give the variables a value (here 0) or leave them as they were
SolverOutcomes(lv) ==
    LET objs == {lv[i] : i \in 1..Len(lv)}
    IN [fault : {TRUE}, status : {"Not Solved"}, assign : {FALSE}, vals : {<<>>}]
       \cup [fault : {FALSE}, status : {"Optimal"}, assign : {TRUE},
             vals : [objs -> SolverValues]]
       \cup [fault : {FALSE}, status : SolverStatuses \ {"Optimal"},
             assign : {TRUE}, vals : {[v \in objs |-> 0]}]
       \cup [fault : {FALSE}, status : SolverStatuses \ {"Optimal"},
             assign : {FALSE}, vals : {<<>>}]

\* solve as it would be if the objective were evaluated before the solver's
\* values reach the variables
solve_stale_value(s, o) ==
    IF o.fault
    THEN [s |-> s, ret |-> RetNone]
    ELSE LET lv == lpVariablesOf(s)
             vv == IF o.assign
                   THEN [v \in DOMAIN s.varValue |->
                            IF InList(lv, v) THEN o.vals[v] ELSE s.varValue[v]]
                   ELSE s.varValue
             s1 == [s EXCEPT !.lp_variables = lv, !.status = o.status,
                             !.varValue = vv]
         IN IF s1.objective.isNone
            THEN [s |-> s1, ret |-> RetNone]
            ELSE [s |-> [s1 EXCEPT !.objective_value =
                                       value(s1.objective.expr, s.varValue)],
                  ret |-> RetNone]

\* solve as it would be if the except branch set the objective value to 0
solve_zero_on_fault(s, o) ==
    IF o.fault
    THEN [s |-> [s EXCEPT !.objective_value = 0], ret |-> RetNone]
    ELSE LET lv == lpVariablesOf(s)
             vv == IF o.assign
                   THEN [v \in DOMAIN s.varValue |->
                            IF InList(lv, v) THEN o.vals[v] ELSE s.varValue[v]]
                   ELSE s.varValue
             s1 == [s EXCEPT !.lp_variables = lv, !.status = o.status,
                             !.varValue = vv]
         IN IF s1.objective.isNone
            THEN [s |-> s1, ret |-> RetNone]
            ELSE [s |-> [s1 EXCEPT !.objective_value = value(s1.objective.expr, vv)],
                  ret |-> RetNone]

solve(s, o) ==
    IF o.fault
    \* self.model.solve() raised: line 174 catches it and only logs
    THEN [s |-> s, ret |-> RetNone]
    ELSE LET lv == lpVariablesOf(s)
             vv == IF o.assign
                   THEN [v \in DOMAIN s.varValue |->
                            IF InList(lv, v) THEN o.vals[v] ELSE s.varValue[v]]
                   ELSE s.varValue
             s1 == [s EXCEPT !.lp_variables = lv, !.status = o.status,
                             !.varValue = vv]
         IN IF s1.objective.isNone
            \* pulp.value(None) raises AttributeError, caught by line 174
            THEN [s |-> s1, ret |-> RetNone]
            ELSE [s |-> [s1 EXCEPT !.objective_value = value(s1.objective.expr, vv)],
                  ret |-> RetNone]

----------------------------------------------------------------------------
(* get_results *)

\* {v.name: v.varValue for v in lv}: a later object of a name overwrites an
\* earlier one
resultsDict(lv, vv) ==
    [n \in {lv[i].name : i \in 1..Len(lv)} |->
        LET last == CHOOSE i \in 1..Len(lv) :
                        /\ lv[i].name = n
                        /\ \A j \in 1..Len(lv) : lv[j].name = n => j <= i
        IN vv[lv[last]]]

\* get_results as it would be if reading the values consumed them
get_results_clearing(s) ==
    LET lv == lpVariablesOf(s)
    IN [s |-> [s EXCEPT !.lp_variables = lv,
                        !.varValue = [v \in DOMAIN s.varValue |->
                                         IF InList(lv, v) THEN PyNone
                                         ELSE s.varValue[v]]],
        ret |-> RetDict(resultsDict(lv, s.varValue))]

get_results(s) ==
    LET lv == lpVariablesOf(s)
    IN [s |-> [s EXCEPT !.lp_variables = lv],
        ret |-> RetDict(resultsDict(lv, s.varValue))]

----------------------------------------------------------------------------
(* run *)

\* failed names the stage that made run stop, solver tells whether
\* self.model.solve() was called
\* the three building stages as they would be if run went on after a failed
\* define_vars
run_build_no_stop(s, var_dict, obj_coeffs, cons) ==
    LET r1 == define_vars(s, var_dict)
        r2 == set_objective(r1.s, obj_coeffs)
    IN IF r2.ret # RetNone
       THEN [s |-> r2.s, ret |-> RetNone, failed |-> "set_objective"]
       ELSE
    LET r3 == add_constraints(r2.s, cons)
    IN IF r3.ret # RetTrue
       THEN [s |-> r3.s, ret |-> RetNone, failed |-> "add_constraints"]
       ELSE [s |-> r3.s, ret |-> RetTrue, failed |-> "none"]

run_build(s, var_dict, obj_coeffs, cons) ==
    LET r1 == define_vars(s, var_dict)
    IN IF r1.ret # RetNone
       THEN [s |-> r1.s, ret |-> RetNone, failed |-> "define_vars"]
       ELSE
    LET r2 == set_objective(r1.s, obj_coeffs)
    IN IF r2.ret # RetNone
       THEN [s |-> r2.s, ret |-> RetNone, failed |-> "set_objective"]
       ELSE
    LET r3 == add_constraints(r2.s, cons)
    IN IF r3.ret # RetTrue
       THEN [s |-> r3.s, ret |-> RetNone, failed |-> "add_constraints"]
       ELSE [s |-> r3.s, ret |-> RetTrue, failed |-> "none"]

\* o is what the solver does if run gets as far as calling it
run(s, var_dict, obj_coeffs, cons, o) ==
    LET b == run_build(s, var_dict, obj_coeffs, cons)
    IN IF b.failed # "none"
       THEN [s |-> b.s, ret |-> b.ret, failed |-> b.failed, solver |-> FALSE]
       ELSE LET r4 == solve(b.s, o)
                r5 == get_results(r4.s)
            IN [s |-> r5.s, ret |-> r5.ret,
                failed |-> IF o.fault THEN "solve" ELSE "none", solver |-> TRUE]

----------------------------------------------------------------------------
(* the arguments the calls are made with *)

Continuous == [isTuple |-> TRUE, len |-> 3, low |-> 0, up |-> PyNone, cat |-> "Continuous"]
Integer01 == [isTuple |-> TRUE, len |-> 3, low |-> 0, up |-> 1, cat |-> "Integer"]
\* the 2-tuple (0, None) of test_define_vars_invalid
BadBounds == [isTuple |-> TRUE, len |-> 2, low |-> 0, up |-> PyNone, cat |-> "none"]

Entry(var, bounds) == [var |-> var, bounds |-> bounds]
NotADict == [isDict |-> FALSE, items |-> <<>>]
\* a dict is its items in insertion order, its keys distinct
VarDicts ==
    {NotADict} \cup {[isDict |-> TRUE, items |-> its] :
        its \in {<<>>,
                 <<Entry("x1", Continuous)>>,
                 <<Entry("x1", Integer01)>>,
                 <<Entry("x2", Continuous)>>,
                 <<Entry("x1", BadBounds)>>,
                 <<Entry("x1", Continuous), Entry("x2", Continuous)>>,
                 <<Entry("x1", Continuous), Entry("x2", BadBounds)>>,
                 <<Entry("x1", BadBounds), Entry("x2", Continuous)>>}}

Dict(f) == [isDict |-> TRUE, d |-> f]
NotACoeffDict == [isDict |-> FALSE, d |-> <<>>]
Empty == [n \in {} |-> 0]
CoeffDicts ==
    {NotACoeffDict, Dict(Empty), Dict("x1" :> 1), Dict("x2" :> 1), Dict("x1" :> 0),
     Dict(("x1" :> 2) @@ ("x2" :> 3))}

Num(n) == [isNum |-> TRUE, val |-> n]
NotANumber == [isNum |-> FALSE, val |-> 0]
Tuple3(e, sn, r) == [isTuple |-> TRUE, len |-> 3, expr |-> e, sense |-> sn, rhs |-> r]

X1 == "x1" :> 1
X2 == "x2" :> 1
X1le10 == Tuple3(Dict(X1), "LE", Num(10))

ConstraintInputs ==
    { X1le10,                                    \* x1 <= 10
      Tuple3(Dict(X2), "GE", Num(0)),            \* x2 >= 0
      Tuple3(Dict(X1 @@ X2), "EQ", Num(10)),     \* x1 + x2 = 10
      Tuple3(Dict(X1), "bogus", Num(10)),        \* invalid operator
      Tuple3(Dict(X1), "LE", NotANumber),        \* non-numeric right-hand side
      Tuple3(NotACoeffDict, "LE", Num(10)),      \* expression is no dict
      [X1le10 EXCEPT !.len = 2],                 \* a 2-tuple
      Tuple3(Dict(Empty), "LE", Num(10)) }       \* {} <= 10

NotAList == [isList |-> FALSE, items |-> <<>>]
BadOperator == Tuple3(Dict(X1), "bogus", Num(10))
BadRhs == Tuple3(Dict(X1), "LE", NotANumber)
\* batches of up to two constraints; a batch of two holds x1 <= 10, or ends
\* with a constraint of invalid operator or right-hand side that follows
\* another constraint, invalid or not
Batches ==
    {NotAList}
    \cup {[isList |-> TRUE, items |-> <<>>]}
    \cup {[isList |-> TRUE, items |-> <<c>>] : c \in ConstraintInputs}
    \cup {[isList |-> TRUE, items |-> <<X1le10, c>>] : c \in ConstraintInputs}
    \cup {[isList |-> TRUE, items |-> <<c, X1le10>>] : c \in ConstraintInputs}
    \cup {[isList |-> TRUE, items |-> its] :
             its \in {<<BadRhs, BadOperator>>,
                      <<BadOperator, BadRhs>>,
                      <<Tuple3(NotACoeffDict, "LE", Num(10)), BadOperator>>,
                      <<Tuple3(Dict(Empty), "LE", Num(10)), BadRhs>>}}

NoOutcome == [fault |-> TRUE, status |-> "Not Solved", assign |-> FALSE, vals |-> <<>>]

----------------------------------------------------------------------------
(* set_logging *)

\* logging.basicConfig(level=logging.INFO) at import
basicConfig == 20

\* a level argument: a string, or a value that is no string
Str(name) == [isStr |-> TRUE, name |-> name]
\* the default of the parameter, logging.INFO, is an int
DefaultLevel == [isStr |-> FALSE, name |-> "20"]
NoLevel == [isStr |-> FALSE, name |-> ""]

\* str.upper() of the names passed
upper(name) ==
    CASE name = "debug" -> "DEBUG"
      [] OTHER -> name

\* getattr(logging, name, None): the module's integer attributes with an
\* upper-case name are its levels and their aliases
getattr_logging(name) ==
    CASE name = "CRITICAL" -> 50
      [] name = "FATAL" -> 50
      [] name = "ERROR" -> 40
      [] name = "WARNING" -> 30
      [] name = "WARN" -> 30
      [] name = "INFO" -> 20
      [] name = "DEBUG" -> 10
      [] name = "NOTSET" -> 0
      [] OTHER -> PyNone

set_logging(lv, level) ==
    \* level.upper() of a value that is no string raises AttributeError
    IF ~level.isStr THEN [log_level |-> lv, ret |-> RetRaised]
    ELSE LET num_level == getattr_logging(upper(level.name))
         IN IF num_level = PyNone
            THEN [log_level |-> lv, ret |-> RetFalse]
            ELSE [log_level |-> num_level, ret |-> RetTrue]

Levels ==
    {DefaultLevel} \cup {Str(n) : n \in {"DEBUG", "INFO", "WARNING", "ERROR", "CRITICAL",
                                        "debug", "NOTSET", "INVALID"}}

----------------------------------------------------------------------------
(* the state machine *)

\* history only: the record of a call, kept in lastOp for the properties
NoArg == [isDict |-> FALSE, isList |-> FALSE, items |-> <<>>, d |-> <<>>]

\* returned is the status the solver ended with, "none" if it did not end
Call(op, var_dict, obj_coeffs, cons, ret, failed, solver, returned) ==
    [op |-> op, var_dict |-> var_dict, obj_coeffs |-> obj_coeffs, cons |-> cons,
     level |-> NoLevel, on |-> "self",
     ret |-> ret, failed |-> failed, solver |-> solver, returned |-> returned]

\* DataProcessing.__init__: self.data = None
NoData == [isNone |-> TRUE, columns |-> <<>>]

\* no call of solve is under way
Idle == [phase |-> "idle", o |-> NoOutcome]

Init ==
    /\ variables = InitState.variables
    /\ objective = InitState.objective
    /\ constraints = InitState.constraints
    /\ lp_variables = InitState.lp_variables
    /\ status = InitState.status
    /\ varValue = InitState.varValue
    /\ objective_value = InitState.objective_value
    /\ log_level = basicConfig
    /\ solver_call = Idle
    /\ other = InitState
    /\ data = NoData
    /\ detected = RetNone
    /\ lastOp = Call("init", NoArg, NoArg, NoArg, RetNone, "none", FALSE, "none")
    /\ solved = FALSE
    /\ completed = FALSE
    /\ calls = 0

\* the call is recorded
Logged(call) ==
    /\ lastOp' = call
    /\ solved' = (solved \/ call.solver)
    /\ completed' = (completed \/ call.returned # "none")

\* the attributes of an instance as they would be if the registry were one
\* dict shared by all instances
Untouched_shared_registry(inst, s) == [inst EXCEPT !.variables = s.variables]

\* what a call that leaves its own instance in the state s leaves of another
\* instance inst: model, variables and objective_value are made anew for
\* each instance by __init__, and a method reads and writes those of self
Untouched(inst, s) == inst

Assigned(s) ==
    /\ variables' = s.variables
    /\ objective' = s.objective
    /\ constraints' = s.constraints
    /\ lp_variables' = s.lp_variables
    /\ status' = s.status
    /\ varValue' = s.varValue
    /\ objective_value' = s.objective_value
    /\ calls' = calls + 1
    \* the building and solving operations leave the logger as it is
    /\ log_level' = log_level
    /\ solver_call' = Idle
    /\ UNCHANGED <<data, detected>>

\* a call on this instance that leaves it in the state s
Becomes(s) ==
    /\ Assigned(s)
    /\ other' = Untouched(other, s)

DefineVars ==
    /\ calls < MaxCalls
    /\ \E var_dict \in VarDicts :
        LET r == define_vars(Current, var_dict)
        IN /\ Becomes(r.s)
           /\ Logged(Call("define_vars", var_dict, NoArg, NoArg, r.ret,
                             IF r.ret = RetNone THEN "none" ELSE "define_vars", FALSE,
                             "none"))

SetObjective ==
    /\ calls < MaxCalls
    /\ \E obj_coeffs \in CoeffDicts :
        LET r == set_objective(Current, obj_coeffs)
        IN /\ Becomes(r.s)
           /\ Logged(Call("set_objective", NoArg, obj_coeffs, NoArg, r.ret,
                             IF r.ret = RetNone THEN "none" ELSE "set_objective", FALSE,
                             "none"))

AddConstraints ==
    /\ calls < MaxCalls
    /\ \E cons \in Batches :
        LET r == add_constraints(Current, cons)
        IN /\ Becomes(r.s)
           /\ Logged(Call("add_constraints", NoArg, NoArg, cons, r.ret,
                             IF r.ret = RetTrue THEN "none" ELSE "add_constraints", FALSE,
                             "none"))

Solve ==
    /\ calls < MaxCalls
    /\ \E o \in SolverOutcomes(lpVariablesOf(Current)) :
        LET r == solve(Current, o)
        IN /\ Becomes(r.s)
           /\ Logged(Call("solve", NoArg, NoArg, NoArg, r.ret,
                             IF o.fault THEN "solve" ELSE "none", TRUE,
                             IF o.fault THEN "none" ELSE o.status))

GetResults ==
    /\ calls < MaxCalls
    /\ LET r == get_results(Current)
       IN /\ Becomes(r.s)
          /\ Logged(Call("get_results", NoArg, NoArg, NoArg, r.ret, "none", FALSE, "none"))

\* the arguments run is called with: each stage can fail or pass
RunVarDicts ==
    {[isDict |-> TRUE, items |-> its] :
        its \in {<<Entry("x1", Continuous)>>,
                 <<Entry("x1", Continuous), Entry("x2", BadBounds)>>,
                 <<Entry("x1", Continuous), Entry("x2", Continuous)>>}}
RunCoeffDicts == {NotACoeffDict, Dict("x1" :> 1), Dict(("x1" :> 1) @@ ("x2" :> 2))}
RunBatches ==
    {NotAList} \cup {[isList |-> TRUE, items |-> its] :
        its \in {<<X1le10>>,
                 <<X1le10, Tuple3(Dict(X1), "bogus", Num(10))>>}}

\* the arguments of the example: x1 >= 0 and x2 >= 0 continuous, the
\* objective x1 + 2*x2, the constraint x1 + x2 <= 10
ExampleVars ==
    [isDict |-> TRUE, items |-> <<Entry("x1", Continuous), Entry("x2", Continuous)>>]
ExampleObjective == Dict(("x1" :> 1) @@ ("x2" :> 2))
ExampleConstraints ==
    [isList |-> TRUE, items |-> <<Tuple3(Dict(X1 @@ X2), "LE", Num(10))>>]

\* run is called with every combination of the arguments above, and with
\* the example
RunInputs ==
    (RunVarDicts \X RunCoeffDicts \X RunBatches)
    \cup {<<ExampleVars, ExampleObjective, ExampleConstraints>>}

Run ==
    /\ calls < MaxCalls
    /\ \E args \in RunInputs :
        LET var_dict == args[1]
            obj_coeffs == args[2]
            cons == args[3]
            b == run_build(Current, var_dict, obj_coeffs, cons)
        IN \E o \in IF b.failed = "none" THEN SolverOutcomes(lpVariablesOf(b.s))
                                         ELSE {NoOutcome} :
             LET r == run(Current, var_dict, obj_coeffs, cons, o)
             IN /\ Becomes(r.s)
                /\ Logged(Call("run", var_dict, obj_coeffs, cons, r.ret,
                                  r.failed, r.solver,
                                  IF r.solver /\ ~o.fault THEN o.status ELSE "none"))

Next ==
    \/ DefineVars
    \/ SetObjective
    \/ AddConstraints
    \/ Solve
    \/ GetResults
    \/ Run

Spec == Init /\ [][Next]_vars

\* the model's operations together with set_logging
SetLogging ==
    /\ calls < MaxCalls
    /\ \E level \in Levels :
        LET r == set_logging(log_level, level)
        IN /\ log_level' = r.log_level
           /\ calls' = calls + 1
           /\ UNCHANGED <<variables, objective, constraints, lp_variables, status,
                          varValue, objective_value, solver_call, other,
                          data, detected>>
           /\ Logged([Call("set_logging", NoArg, NoArg, NoArg, r.ret,
                              IF r.ret = RetTrue THEN "none" ELSE "set_logging",
                              FALSE, "none") EXCEPT !.level = level])

NextLogging ==
    \/ Next
    \/ SetLogging

SpecLogging == Init /\ [][NextLogging]_vars

----------------------------------------------------------------------------
(* DataProcessing: load_data and detect_categorical_columns *)

\* a column of the frame: its name, its dtype and the number of its distinct
\* values that are not missing (Series.nunique())
Column(name, kind) == [name |-> name, dtype |-> kind.dtype, nunique |-> kind.nunique]

\* the kinds of column: text, integers, floats, booleans and a categorical
\* dtype, each with few and with many distinct values
ColumnKinds ==
    [dtype : {"object", "int64", "float64", "category"},
     nunique : {3, UniqueThreshold - 1, UniqueThreshold}]
    \cup [dtype : {"bool"}, nunique : {2}]

ColumnNames == <<"a", "b", "c", "d">>

\* the frames of one to MaxCols columns, their names distinct
Frames ==
    {[isNone |-> FALSE,
      columns |-> [i \in DOMAIN kinds |-> Column(ColumnNames[i], kinds[i])]] :
        kinds \in UNION {[1..n -> ColumnKinds] : n \in 1..MaxCols}}

is_object_dtype(col) == col.dtype = "object"
is_numeric_dtype(col) == col.dtype \in {"int64", "float64", "bool"}

\* line 78 as Python reads it: and binds tighter than or
IsCategorical(col) ==
    is_object_dtype(col) \/ (col.nunique < UniqueThreshold /\ ~is_numeric_dtype(col))

RetList(l) == [kind |-> "list", val |-> l]

\* the names of the columns that pass line 78, in the frame's order
detect_categorical_columns(d) ==
    IF d.isNone
    \* self.data.columns of None raises AttributeError
    THEN RetRaised
    ELSE RetList([i \in 1..Len(SelectSeq(d.columns, IsCategorical)) |->
                     SelectSeq(d.columns, IsCategorical)[i].name])

\* load_data reads the file into self.data
LoadData ==
    /\ \E frame \in Frames : data' = frame
    /\ detected' = RetNone
    /\ UNCHANGED <<variables, objective, constraints, lp_variables, status,
                   varValue, log_level, solver_call, objective_value, other,
                   lastOp, solved, completed, calls>>

DetectCategoricalColumns ==
    /\ detected' = detect_categorical_columns(data)
    /\ UNCHANGED <<variables, objective, constraints, lp_variables, status,
                   varValue, log_level, solver_call, objective_value, other,
                   data, lastOp, solved, completed, calls>>

NextData ==
    \/ LoadData
    \/ DetectCategoricalColumns

SpecData == Init /\ [][NextData]_vars

----------------------------------------------------------------------------
(* two instances: every operation is called on either of them *)

Instances == {"self", "other"}
InstanceState(inst) == IF inst = "self" THEN Current ELSE other

\* the call made on inst left that instance in the state s
Applied(inst, s, call) ==
    IF inst = "self"
    THEN /\ Becomes(s)
         /\ Logged(call)
    ELSE /\ other' = s
         /\ Assigned(Untouched(Current, s))
         /\ lastOp' = [call EXCEPT !.on = "other"]
         /\ solved' = solved
         /\ completed' = completed

TwoDefineVars ==
    /\ calls < MaxCalls
    /\ \E inst \in Instances, var_dict \in RunVarDicts :
        LET r == define_vars(InstanceState(inst), var_dict)
        IN Applied(inst, r.s,
                   Call("define_vars", var_dict, NoArg, NoArg, r.ret,
                        IF r.ret = RetNone THEN "none" ELSE "define_vars", FALSE,
                        "none"))

TwoSetObjective ==
    /\ calls < MaxCalls
    /\ \E inst \in Instances, obj_coeffs \in RunCoeffDicts :
        LET r == set_objective(InstanceState(inst), obj_coeffs)
        IN Applied(inst, r.s,
                   Call("set_objective", NoArg, obj_coeffs, NoArg, r.ret,
                        IF r.ret = RetNone THEN "none" ELSE "set_objective", FALSE,
                        "none"))

TwoAddConstraints ==
    /\ calls < MaxCalls
    /\ \E inst \in Instances, cons \in RunBatches :
        LET r == add_constraints(InstanceState(inst), cons)
        IN Applied(inst, r.s,
                   Call("add_constraints", NoArg, NoArg, cons, r.ret,
                        IF r.ret = RetTrue THEN "none" ELSE "add_constraints", FALSE,
                        "none"))

TwoSolve ==
    /\ calls < MaxCalls
    /\ \E inst \in Instances :
        \E o \in SolverOutcomes(lpVariablesOf(InstanceState(inst))) :
            LET r == solve(InstanceState(inst), o)
            IN Applied(inst, r.s,
                       Call("solve", NoArg, NoArg, NoArg, r.ret,
                            IF o.fault THEN "solve" ELSE "none", TRUE,
                            IF o.fault THEN "none" ELSE o.status))

\* run is called with the example
TwoRun ==
    /\ calls < MaxCalls
    /\ \E inst \in Instances :
        LET b == run_build(InstanceState(inst), ExampleVars, ExampleObjective,
                           ExampleConstraints)
        IN \E o \in IF b.failed = "none" THEN SolverOutcomes(lpVariablesOf(b.s))
                                         ELSE {NoOutcome} :
             LET r == run(InstanceState(inst), ExampleVars, ExampleObjective,
                          ExampleConstraints, o)
             IN Applied(inst, r.s,
                        Call("run", ExampleVars, ExampleObjective,
                             ExampleConstraints, r.ret, r.failed, r.solver,
                             IF r.solver /\ ~o.fault THEN o.status ELSE "none"))

NextTwo ==
    \/ TwoDefineVars
    \/ TwoSetObjective
    \/ TwoAddConstraints
    \/ TwoSolve
    \/ TwoRun

SpecTwo == Init /\ [][NextTwo]_vars

----------------------------------------------------------------------------
(* solve in steps: the call, the solver's end, the return *)

\* solve is entered and calls self.model.solve(): solve has no parameter and
\* hands the solver no time limit
SolveCall ==
    /\ calls < MaxCalls
    /\ solver_call = Idle
    /\ solver_call' = [phase |-> "running", o |-> NoOutcome]
    /\ UNCHANGED <<variables, objective, constraints, lp_variables, status,
                   varValue, log_level, objective_value, other, data, detected,
                   lastOp, solved, completed, calls>>

\* the solver ends, with a status or a fault; nothing makes it end
SolverEnds ==
    /\ solver_call.phase = "running"
    /\ \E o \in SolverOutcomes(lpVariablesOf(Current)) :
          solver_call' = [phase |-> "ended", o |-> o]
    /\ UNCHANGED <<variables, objective, constraints, lp_variables, status,
                   varValue, log_level, objective_value, other, data, detected,
                   lastOp, solved, completed, calls>>

\* lines 172-175: the rest of solve, once self.model.solve() is back
SolveReturn ==
    /\ solver_call.phase = "ended"
    /\ LET o == solver_call.o
           r == solve(Current, o)
       IN /\ Becomes(r.s)
          /\ Logged(Call("solve", NoArg, NoArg, NoArg, r.ret,
                            IF o.fault THEN "solve" ELSE "none", TRUE,
                            IF o.fault THEN "none" ELSE o.status))

\* the caller makes no other call while solve has not returned
NextBlocking ==
    \/ solver_call = Idle /\ Next
    \/ SolveCall
    \/ SolverEnds
    \/ SolveReturn

\* solve goes on once the solver is back; whether the solver comes back is
\* the solver's affair
SpecBlocking == Init /\ [][NextBlocking]_vars /\ WF_vars(SolveReturn)

----------------------------------------------------------------------------
(* what the claims speak of *)

\* a var_dict with at least one entry that is no 3-tuple
HasMalformedEntry(var_dict) ==
    /\ var_dict.isDict
    /\ \E i \in 1..Len(var_dict.items) :
          ~var_dict.items[i].bounds.isTuple \/ var_dict.items[i].bounds.len # 3

\* define_vars rejects var_dict
BadVarDict(var_dict) == ~var_dict.isDict \/ HasMalformedEntry(var_dict)

\* the registered variables: names, bounds, categories
Registered(reg) ==
    [n \in DOMAIN reg |->
        [low |-> reg[n].lowBound, up |-> reg[n].upBound, cat |-> reg[n].cat]]

\* a constraint that fails validation against the registry reg
InvalidConstraint(c, reg) ==
    \/ ~c.isTuple \/ c.len # 3
    \/ ~c.expr.isDict
    \/ \E n \in DOMAIN c.expr.d : n \notin DOMAIN reg
    \/ c.sense \notin {"LE", "GE", "EQ"}
    \/ ~c.rhs.isNum

HasInvalidConstraint(cons, reg) ==
    /\ cons.isList
    /\ \E i \in 1..Len(cons.items) : InvalidConstraint(cons.items[i], reg)

BadBatch(cons, reg) == ~cons.isList \/ HasInvalidConstraint(cons, reg)

\* set_objective must reject obj_coeffs against the registry reg
BadObjective(obj_coeffs, reg) ==
    ~obj_coeffs.isDict \/ \E n \in DOMAIN obj_coeffs.d : n \notin DOMAIN reg

\* the coefficient the objective gives the variable named n
ObjectiveCoeff(obj, n) ==
    LET S == {v \in DOMAIN obj.expr : v.name = n}
    IN IF S = {} THEN 0 ELSE obj.expr[CHOOSE v \in S : TRUE]

\* the coefficient a mapping passed by the caller gives the name n
PassedCoeff(d, n) == IF n \in DOMAIN d THEN d[n] ELSE 0

\* the names an expression mentions
NamesOf(expr) == {v.name : v \in DOMAIN expr}

----------------------------------------------------------------------------
(* C1: define_vars is atomic: a call whose var_dict holds a malformed entry,
   at any position, reports failure and leaves the registered variables
   (names, bounds, categories) as they were before the call. *)
C1_DefineVarsAtomic ==
    [][(lastOp'.op = "define_vars" /\ HasMalformedEntry(lastOp'.var_dict))
         => (lastOp'.ret = RetFalse /\ Registered(variables') = Registered(variables))]_vars

(* C2: add_constraints is atomic per batch: a call whose batch holds a
   constraint that fails validation, at any position, returns False and leaves
   the ordered constraint list as it was before the call. *)
C2_AddConstraintsAtomic ==
    [][(lastOp'.op = "add_constraints" /\ HasInvalidConstraint(lastOp'.cons, variables))
         => (lastOp'.ret = RetFalse /\ constraints' = constraints)]_vars

(* C3: set_objective replaces and never accumulates: after a successful
   set_objective the model holds an objective whose coefficient for every
   name is the one the call passed (0 for a name the call did not pass),
   whatever objective was there before. *)
C3_ObjectiveReplaced ==
    (lastOp.op = "set_objective" /\ lastOp.ret = RetNone)
        => /\ ~objective.isNone
           /\ \A n \in Names :
                 /\ ObjectiveCoeff(objective, n) = PassedCoeff(lastOp.obj_coeffs.d, n)
                 /\ Cardinality({v \in DOMAIN objective.expr : v.name = n}) <= 1

\* a successful set_objective({x1: 1}) on a model whose earlier objective
\* named x2 (x2 is in the problem's variable list and in no constraint)
C3_Witness ==
    /\ lastOp.op = "set_objective"
    /\ lastOp.ret = RetNone
    /\ lastOp.obj_coeffs = Dict("x1" :> 1)
    /\ \E i \in 1..Len(lp_variables) : lp_variables[i].name = "x2"
    /\ \A i \in 1..Len(constraints) : "x2" \notin NamesOf(constraints[i].expr)

(* C4: a rejected set_objective leaves the model untouched: when obj_coeffs
   is no dict or names a variable that is not registered, the call returns
   False and objective, registry and constraint list are unchanged. *)
C4_RejectedObjectiveNoChange ==
    [][(lastOp'.op = "set_objective" /\ BadObjective(lastOp'.obj_coeffs, variables))
         => /\ lastOp'.ret = RetFalse
            /\ objective' = objective
            /\ variables' = variables
            /\ constraints' = constraints]_vars

\* set_objective rejected for an unregistered name while an objective is active
C4_Witness ==
    /\ lastOp.op = "set_objective"
    /\ lastOp.obj_coeffs.isDict
    /\ BadObjective(lastOp.obj_coeffs, variables)
    /\ lastOp.ret = RetFalse
    /\ ~objective.isNone
    /\ DOMAIN objective.expr # {}

(* C5: referential integrity: in every reachable state every variable name
   in the objective or in a stored constraint is a name of the registry. *)
C5_ReferentialIntegrity ==
    /\ ~objective.isNone => NamesOf(objective.expr) \subseteq DOMAIN variables
    /\ \A i \in 1..Len(constraints) :
          NamesOf(constraints[i].expr) \subseteq DOMAIN variables

\* a define_vars call made on a model whose objective and constraints name
\* variables
C5_Witness ==
    /\ lastOp.op = "define_vars"
    /\ ~objective.isNone
    /\ NamesOf(objective.expr) # {}
    /\ \E i \in 1..Len(constraints) : NamesOf(constraints[i].expr) # {}

(* C6: run short-circuits in stage order: a failed define_vars leaves
   objective and constraints untouched, a failed set_objective leaves the
   constraints untouched, and a failure of any building stage means run
   returns None, the solver is not called and objective_value, status and the
   variables' values are unchanged. *)
C6_RunShortCircuits ==
    [][lastOp'.op = "run" =>
        LET call == lastOp'
            failsDefine == BadVarDict(call.var_dict)
            failsObjective == ~failsDefine /\ BadObjective(call.obj_coeffs, variables')
            failsConstraints == /\ ~failsDefine
                                /\ ~failsObjective
                                /\ BadBatch(call.cons, variables')
            untouched == /\ call.ret = RetNone
                         /\ ~call.solver
                         /\ solved' = solved
                         /\ objective_value' = objective_value
                         /\ status' = status
                         /\ varValue' = [v \in DOMAIN varValue' |->
                                           IF v \in DOMAIN varValue THEN varValue[v]
                                           ELSE PyNone]
        IN /\ failsDefine => untouched /\ objective' = objective
                                       /\ constraints' = constraints
           /\ failsObjective => untouched /\ objective' = objective
                                          /\ constraints' = constraints
           /\ failsConstraints => untouched
           /\ ~(failsDefine \/ failsObjective \/ failsConstraints) => call.solver]_vars

\* run stopped at set_objective (an unregistered name) after define_vars passed
C6_Witness ==
    /\ lastOp.op = "run"
    /\ ~BadVarDict(lastOp.var_dict)
    /\ lastOp.obj_coeffs.isDict
    /\ BadObjective(lastOp.obj_coeffs, variables)
    /\ lastOp.ret = RetNone

(* C7: run returns None if any stage fails (a building stage rejects its
   input or the solver raises), and otherwise exactly what a get_results call
   made right after run returns. *)
C7_RunReturnValue ==
    lastOp.op = "run" =>
        IF \/ BadVarDict(lastOp.var_dict)
           \/ BadObjective(lastOp.obj_coeffs, variables)
           \/ BadBatch(lastOp.cons, variables)
           \/ lastOp.failed = "solve"
        THEN lastOp.ret = RetNone
        ELSE lastOp.ret = get_results(Current).ret

(* C8: get_results is gated on an Optimal solve: when the last solve ended
   Infeasible or Unbounded it returns the no-result indicator, never a
   mapping. *)
C8_ResultsOnlyWhenOptimal ==
    (lastOp.op = "get_results" /\ status \in {"Infeasible", "Unbounded"})
        => lastOp.ret = RetNone

(* C9: get_results before any solve returns the no-result indicator, not an
   empty mapping and not a mapping of unset values. *)
C9_NoResultsBeforeSolve ==
    (lastOp.op = "get_results" /\ ~solved) => lastOp.ret = RetNone

(* C10: solver faults are contained: when the solver call raises, solve does
   not propagate the fault and the objective value and every variable's
   value are unset after the call, also when an earlier solve had succeeded. *)
C10_SolverFaultContained ==
    (lastOp.op = "solve" /\ lastOp.failed = "solve")
        => /\ lastOp.ret # RetRaised
           /\ objective_value = PyNone
           /\ \A v \in DOMAIN varValue : varValue[v] = PyNone

(* C11: solve records the solver's terminal status: after a solve in which
   the solver returned without fault, the recorded status is the status the
   solver returned (Optimal, Infeasible or Unbounded), and the recorded
   objective value is the value of the objective under the variables' values
   (unset while there is no objective). *)
C11_SolveRecordsStatus ==
    lastOp.returned # "none"
        => /\ status = lastOp.returned
           /\ status \in SolverStatuses
           /\ objective_value = IF objective.isNone THEN PyNone
                                ELSE value(objective.expr, varValue)

C11_Witness ==
    /\ lastOp.op = "solve"
    /\ lastOp.returned = "Unbounded"
    /\ ~objective.isNone
    /\ objective_value # PyNone

\* the constraint has an operator outside {<=, >=, =} or a right-hand side
\* that is no number
BadOperatorOrRhs(c) == c.sense \notin {"LE", "GE", "EQ"} \/ ~c.rhs.isNum

(* C12: rejection is independent of position: a batch of one or more
   constraints in which the constraint at some index has an operator outside
   {<=, >=, =} or a non-numeric right-hand side makes add_constraints return
   False, whatever the other constraints of the batch are. *)
C12_RejectionAnyPosition ==
    (/\ lastOp.op = "add_constraints"
     /\ lastOp.cons.isList
     /\ \E i \in 1..Len(lastOp.cons.items) : BadOperatorOrRhs(lastOp.cons.items[i]))
        => lastOp.ret = RetFalse

\* the invalid constraint comes second, after a constraint that was accepted
C12_Witness ==
    /\ lastOp.op = "add_constraints"
    /\ Len(lastOp.cons.items) = 2
    /\ ~InvalidConstraint(lastOp.cons.items[1], variables)
    /\ lastOp.cons.items[2].sense = "bogus"
    /\ lastOp.ret = RetFalse

\* a stored constraint as a caller reads it: a coefficient for each name,
\* the operator and the right-hand side
StoredConstraint(con) ==
    [lhs |-> [n \in {v.name : v \in DOMAIN con.expr} |->
                 con.expr[CHOOSE v \in DOMAIN con.expr : v.name = n]],
     sense |-> con.sense, rhs |-> con.rhs]

\* the same reading of a constraint passed to add_constraints
PassedConstraint(c) ==
    [lhs |-> [n \in {m \in DOMAIN c.expr.d : c.expr.d[m] # 0} |-> c.expr.d[n]],
     sense |-> c.sense, rhs |-> c.rhs.val]

(* C13: order preservation across batches: no call reorders, changes or
   removes a stored constraint, and a successful add_constraints leaves the
   constraint list equal to the list before the call followed by the
   constraints of its batch in input order. *)
C13_OrderPreserved ==
    [][/\ Len(constraints') >= Len(constraints)
       /\ \A i \in 1..Len(constraints) : constraints'[i] = constraints[i]
       /\ (lastOp'.op = "add_constraints" /\ lastOp'.ret = RetTrue)
            => /\ Len(constraints') = Len(constraints) + Len(lastOp'.cons.items)
               /\ \A j \in 1..Len(lastOp'.cons.items) :
                    StoredConstraint(constraints'[Len(constraints) + j])
                        = PassedConstraint(lastOp'.cons.items[j])]_vars

\* a batch of two different constraints accepted after an earlier batch
C13_Witness ==
    /\ lastOp.op = "add_constraints"
    /\ lastOp.ret = RetTrue
    /\ Len(lastOp.cons.items) = 2
    /\ lastOp.cons.items[1] # lastOp.cons.items[2]
    /\ Len(constraints) > 2

\* the constraint is a well-formed 3-tuple whose expression mapping is empty
EmptyExpression(c) ==
    c.isTuple /\ c.len = 3 /\ c.expr.isDict /\ DOMAIN c.expr.d = {}

(* C14: empty expressions are rejected: add_constraints returns False and
   adds nothing for a batch holding a constraint whose expression mapping is
   empty, even when its operator is valid and its right-hand side numeric. *)
C14_EmptyExpressionRejected ==
    [][(/\ lastOp'.op = "add_constraints"
        /\ lastOp'.cons.isList
        /\ \E i \in 1..Len(lastOp'.cons.items) : EmptyExpression(lastOp'.cons.items[i]))
          => /\ lastOp'.ret = RetFalse
             /\ constraints' = constraints]_vars

\* the variable objects the objective and the stored constraints refer to
ReferredVariables ==
    (IF objective.isNone THEN {} ELSE DOMAIN objective.expr)
    \cup UNION {DOMAIN constraints[i].expr : i \in 1..Len(constraints)}

(* C15: variables are unique and immutable: once a name is registered its
   bounds and category are the same in every later state, also after a
   define_vars that names it again with other bounds, and the variable the
   objective and the stored constraints refer to under a name is the one the
   registry holds under that name. *)
C15_VariablesImmutable ==
    [][/\ \A n \in DOMAIN variables :
            /\ n \in DOMAIN variables'
            /\ Registered(variables')[n] = Registered(variables)[n]
       /\ \A v \in ReferredVariables' : variables'[v.name] = v]_vars

(* C16: no validation error escapes as a raised fault: whatever the shape of
   its input (wrong container type, wrong arity, unknown variable, invalid
   operator, non-numeric right-hand side, a logging level of any type, the
   default of set_logging's parameter included), each of define_vars,
   set_objective, add_constraints, set_logging and run returns a result and
   does not raise. *)
C16_NoFaultEscapes ==
    lastOp.op \in {"define_vars", "set_objective", "add_constraints", "set_logging", "run"}
        => lastOp.ret # RetRaised

\* the severity names the documentation of set_logging lists, with the
\* numeric levels of the logging module
Severity ==
    [n \in {"DEBUG", "INFO", "WARNING", "ERROR", "CRITICAL"} |->
        CASE n = "DEBUG" -> 10
          [] n = "INFO" -> 20
          [] n = "WARNING" -> 30
          [] n = "ERROR" -> 40
          [] n = "CRITICAL" -> 50]

(* C17: set_logging reports whether the level was recognized: for a
   recognized severity name (DEBUG, INFO, WARNING, ERROR, CRITICAL, in either
   case of letters) it returns True and the active level becomes that
   severity; for any other name it returns False and the active level is the
   same as before the call. *)
C17_SetLoggingRecognized ==
    [][(lastOp'.op = "set_logging" /\ lastOp'.level.isStr)
        => IF upper(lastOp'.level.name) \in DOMAIN Severity
           THEN /\ lastOp'.ret = RetTrue
                /\ log_level' = Severity[upper(lastOp'.level.name)]
           ELSE /\ lastOp'.ret = RetFalse
                /\ log_level' = log_level]_vars

(* C18: each building operation returns an explicit result that tells
   success from failure: define_vars and set_objective return False exactly
   when their input is rejected (no dict, a malformed entry, an unknown
   variable) and None exactly when it is accepted; add_constraints returns
   True exactly when the whole batch is accepted and False otherwise. *)
C18_ExplicitResults ==
    /\ lastOp.op = "define_vars"
         => lastOp.ret = IF BadVarDict(lastOp.var_dict) THEN RetFalse ELSE RetNone
    /\ lastOp.op = "set_objective"
         => lastOp.ret = IF BadObjective(lastOp.obj_coeffs, variables)
                         THEN RetFalse ELSE RetNone
    /\ lastOp.op = "add_constraints"
         => lastOp.ret = IF BadBatch(lastOp.cons, variables) THEN RetFalse ELSE RetTrue

\* a define_vars call rejected for an entry that follows a well-formed one
C18_Witness ==
    /\ lastOp.op = "define_vars"
    /\ HasMalformedEntry(lastOp.var_dict)
    /\ Len(lastOp.var_dict.items) = 2
    /\ lastOp.var_dict.items[1].bounds.len = 3
    /\ lastOp.ret = RetFalse

(* C19: after define_vars, set_objective, add_constraints and solve have
   all succeeded with an Optimal outcome, the mapping of get_results has
   exactly one entry for every registered variable, keyed by its registered
   name, the variables that are in neither the objective nor a constraint
   included. *)
C19_ResultsCoverRegistry ==
    (lastOp.op = "run" /\ lastOp.failed = "none" /\ lastOp.returned = "Optimal")
        => /\ lastOp.ret.kind = "dict"
           /\ DOMAIN lastOp.ret.val = DOMAIN variables

\* the assignment a gives the problem's variables values within their bounds
\* that satisfy every stored constraint
Feasible(a) ==
    /\ \A v \in DOMAIN a :
          /\ v.lowBound = PyNone \/ v.lowBound <= a[v]
          /\ v.upBound = PyNone \/ a[v] <= v.upBound
    /\ \A i \in 1..Len(constraints) :
          LET lhs == SumOver(constraints[i].expr, a, DOMAIN constraints[i].expr)
          IN CASE constraints[i].sense = "LE" -> lhs <= constraints[i].rhs
               [] constraints[i].sense = "GE" -> lhs >= constraints[i].rhs
               [] constraints[i].sense = "EQ" -> lhs = constraints[i].rhs

ObjectiveAt(a) == SumOver(objective.expr, a, DOMAIN objective.expr)

\* the solver did what an exact solver does with the problem the model
\* holds: the values it left are feasible and no feasible assignment is
\* better in the problem's sense
SolverExact ==
    LET objs == {lp_variables[i] : i \in 1..Len(lp_variables)}
        cur == [v \in objs |-> varValue[v]]
    IN /\ \A v \in objs : varValue[v] # PyNone
       /\ DOMAIN objective.expr \subseteq objs
       /\ Feasible(cur)
       /\ \A a \in [objs -> SolverValues] :
             Feasible(a) => IF model_sense = LpMaximize
                            THEN ObjectiveAt(a) <= ObjectiveAt(cur)
                            ELSE ObjectiveAt(a) >= ObjectiveAt(cur)

(* C20: the end-to-end example: on a new model with x1 >= 0 and x2 >= 0
   continuous, the objective maximize x1 + 2*x2 and the constraint
   x1 + x2 <= 10, a run (define_vars, set_objective, add_constraints, solve,
   get_results) whose solver ends Optimal with an optimum of the problem it
   was given ends with status Optimal, objective value 20, x1 = 0 and
   x2 = 10. *)
C20_EndToEndExample ==
    (/\ lastOp.op = "run"
     /\ calls = 1
     /\ lastOp.var_dict = ExampleVars
     /\ lastOp.obj_coeffs = ExampleObjective
     /\ lastOp.cons = ExampleConstraints
     /\ lastOp.returned = "Optimal"
     /\ SolverExact)
        => /\ status = "Optimal"
           /\ objective_value = 20
           /\ lastOp.ret = RetDict(("x1" :> 0) @@ ("x2" :> 10))

C20_Witness ==
    /\ lastOp.op = "run"
    /\ calls = 1
    /\ lastOp.var_dict = ExampleVars
    /\ lastOp.obj_coeffs = ExampleObjective
    /\ lastOp.cons = ExampleConstraints
    /\ lastOp.returned = "Optimal"
    /\ SolverExact
    /\ objective_value = 20

(* C21: solve cannot block forever: whenever solve has called the solver,
   also when the solver does not finish, solve eventually returns. *)
C21_SolveReturns ==
    (solver_call.phase = "running") ~> (solver_call = Idle)

\* what the claim names of an instance: registry, objective, constraint
\* list, objective value and results
InstanceView(inst) ==
    [variables |-> inst.variables, objective |-> inst.objective,
     constraints |-> inst.constraints, objective_value |-> inst.objective_value,
     results |-> resultsDict(lpVariablesOf(inst), inst.varValue)]

(* C22: model instances are isolated: a define_vars, set_objective,
   add_constraints, solve or run call on one of two instances changes
   neither the registry, the objective, the constraint list, the objective
   value nor the results of the other. *)
C22_InstancesIsolated ==
    [][/\ lastOp'.on = "self" => InstanceView(other)' = InstanceView(other)
       /\ lastOp'.on = "other" => InstanceView(Current)' = InstanceView(Current)]_vars

\* a call that changed one instance while the other held variables, an
\* objective and a constraint of its own
C22_Witness ==
    /\ lastOp.on = "self"
    /\ lastOp.op = "define_vars"
    /\ lastOp.ret = RetNone
    /\ DOMAIN variables # DOMAIN other.variables
    /\ ~other.objective.isNone
    /\ Len(other.constraints) > 0
    /\ other.objective_value # PyNone

(* C23: detect_categorical_columns returns exactly the columns that are of
   object dtype or have fewer than 21 unique values; a numeric column with
   fewer than 21 distinct values is among them. *)
C23_CategoricalColumns ==
    detected.kind = "list"
        => {detected.val[i] : i \in 1..Len(detected.val)}
             = {data.columns[i].name : i \in
                   {j \in 1..Len(data.columns) :
                       \/ data.columns[j].dtype = "object"
                       \/ data.columns[j].nunique < 21}}

(* C24: result snapshot stability: after a solve, a get_results call that
   follows another get_results (that of run included) with no other call in
   between returns the same value, and get_results leaves the registry, the
   objective, the constraints, the status and the objective value as they
   were. *)
C24_ResultsStable ==
    [][lastOp'.op = "get_results"
        => /\ variables' = variables
           /\ objective' = objective
           /\ constraints' = constraints
           /\ status' = status
           /\ objective_value' = objective_value
           /\ (/\ solved
               /\ \/ lastOp.op = "get_results"
                  \/ lastOp.op = "run" /\ lastOp.solver)
                => lastOp'.ret = lastOp.ret]_vars

\* get_results called after a run that solved and returned values
C24_Witness ==
    /\ lastOp.op = "get_results"
    /\ solved
    /\ status = "Optimal"
    /\ lastOp.ret.kind = "dict"
    /\ \E n \in DOMAIN lastOp.ret.val : lastOp.ret.val[n] # PyNone

(* C25: each building operation touches only its own component, whether it
   succeeds or is rejected: define_vars changes neither the objective nor
   the constraint list, set_objective neither the registry nor the
   constraint list, add_constraints neither the registry nor the objective,
   and none of the three changes objective_value. *)
C25_OwnComponentOnly ==
    [][/\ lastOp'.op = "define_vars"
            => objective' = objective /\ constraints' = constraints
       /\ lastOp'.op = "set_objective"
            => variables' = variables /\ constraints' = constraints
       /\ lastOp'.op = "add_constraints"
            => variables' = variables /\ objective' = objective
       /\ lastOp'.op \in {"define_vars", "set_objective", "add_constraints"}
            => objective_value' = objective_value]_vars

\* an objective accepted on a model that holds variables, a constraint and
\* the objective value of an earlier solve
C25_Witness ==
    /\ lastOp.op = "set_objective"
    /\ lastOp.ret = RetNone
    /\ DOMAIN objective.expr # {}
    /\ Len(constraints) > 0
    /\ objective_value # PyNone

(* C26: objective_value is unset until a solve completes: in every
   reachable state in which no call of the solver has returned without a
   fault, objective_value is None, and objective_value changes only in a
   call (solve, or run through solve) whose solver returned without a
   fault. *)
C26_UnsetUntilSolved ==
    /\ [](~completed => objective_value = PyNone)
    /\ [][objective_value' # objective_value => lastOp'.returned # "none"]_vars

\* a solve whose solver raised, on a model with an objective, with no
\* completed solve before it
C26_Witness ==
    /\ lastOp.op = "solve"
    /\ lastOp.failed = "solve"
    /\ ~completed
    /\ ~objective.isNone
    /\ DOMAIN objective.expr # {}

====
